---- MODULE Spec2Model ----
(***************************************************************************)
(* Two-stage hybrid retrieval of CourseHelper:                             *)
(*   src/src/tools/retriever_tool.py  HybridRetriever, _get_stable_doc_key *)
(*   src/src/tools/reranker.py        CrossEncoderReranker, LLMReranker,   *)
(*                                    create_reranker                      *)
(*   src/src/ingest/indexer.py        BM25Index.search                     *)
(*                                                                         *)
(* Numbers.  The code computes with floats.  Here every distance and every *)
(* lexical score is an integer multiple of one unit u, and the guard       *)
(* epsilon 1e-10 of the normalisations is u / EpsInv.  Then                *)
(*   1 - (d - min) / (range + eps) = (EpsInv*(max - d) + 1) / VecDen       *)
(*   s / (max_s + eps)             = (EpsInv*s) / LexDen                   *)
(* with VecDen = EpsInv*range + 1 and LexDen = EpsInv*max_s + 1.  Weights  *)
(* are hundredths.  All fused scores of one call share the denominator     *)
(* 100 * VecDen * LexDen, so a fused score is kept as its integer          *)
(* numerator over that denominator: exact rational arithmetic.             *)
(***************************************************************************)
EXTENDS Integers, Sequences, FiniteSets, TLC

\* ------------------------------------------------------------ bounds
MaxDocs == 2
MaxDist == 1
MaxScore == 1
MaxTopK == 2

\* ------------------------------------------------------------ constants
EpsInv == 10
UniformScore == 1
LLMWindow == 10

Calls == {1, 2}
None == "None"

\* ------------------------------------------------------------ sequences
Min2(a, b) == IF a < b THEN a ELSE b

Max2(a, b) == IF a > b THEN a ELSE b

\* a slice that cuts nothing
TakeUncut(s, n) == s

\* s[:n] for n >= 0
Take(s, n) == SubSeq(s, 1, Min2(n, Len(s)))

\* the element of a one-element set.  Only({e(t) : t \in {v}}) is e with
\* the local variable t holding v: v is computed once, then e reads it
Only(S) == CHOOSE x \in S : TRUE

SeqMax(s) == CHOOSE m \in {s[i] : i \in DOMAIN s} : \A i \in DOMAIN s : s[i] <= m

SeqMin(s) == CHOOSE m \in {s[i] : i \in DOMAIN s} : \A i \in DOMAIN s : m <= s[i]

\* list.sort(key=..., reverse=True) / sorted(..., reverse=True): a stable
\* sort, descending by the field "score"; equal scores keep their order.
\* an unstable variant: an element goes before the elements equal to it
RECURSIVE InsertDescUnstable(_, _)
InsertDescUnstable(sorted, e) ==
    IF sorted = <<>> THEN <<e>>
    ELSE IF Head(sorted).score > e.score
         THEN <<Head(sorted)>> \o InsertDescUnstable(Tail(sorted), e)
         ELSE <<e>> \o sorted

RECURSIVE InsertDesc(_, _)
InsertDesc(sorted, e) ==
    IF sorted = <<>> THEN <<e>>
    ELSE IF Head(sorted).score >= e.score
         THEN <<Head(sorted)>> \o InsertDesc(Tail(sorted), e)
         ELSE <<e>> \o sorted

RECURSIVE SortDescStable(_)
SortDescStable(s) ==
    IF s = <<>> THEN <<>>
    ELSE Only({InsertDesc(t, s[Len(s)]) : t \in {SortDescStable(SubSeq(s, 1, Len(s) - 1))}})

\* ------------------------------------------------------------ documents
\* A Document: metadata (a dict) and page_content.  page_content is kept as
\* its first 120 characters (head) and what follows them (tail); obj tells
\* separately constructed objects apart ("v": from the vector store, "l":
\* from the BM25 index).
ChunkA == [metadata |-> [source_file |-> "x.pdf", page |-> 0],
           page_content |-> [head |-> "p1", tail |-> "t1"]]

ChunkA2 == [metadata |-> [source_file |-> "x.pdf", page |-> 0],
            page_content |-> [head |-> "p1", tail |-> "t2"]]

ChunkB == [metadata |-> [source_file |-> "y.pdf", page |-> 2],
           page_content |-> [head |-> "p2", tail |-> "t1"]]

ChunkC == [metadata |-> [source_file |-> "n.txt", chunk_id |-> "c7"],
           page_content |-> [head |-> "p1", tail |-> "t3"]]

Corpus == <<ChunkA, ChunkA2, ChunkB, ChunkC>>

Document(chunk, o) == [metadata |-> chunk.metadata, page_content |-> chunk.page_content, obj |-> o]

\* dict.get(key, default)
MetaGet(metadata, k, default) == IF k \in DOMAIN metadata THEN metadata[k] ELSE default

\* hashlib.md5(content_prefix.encode()).hexdigest()[:8]
Md5Hex8(prefix) == CASE prefix = "p1" -> "0f3a9c11"
                     [] prefix = "p2" -> "7be204d5"
                     [] OTHER -> "d41d8cd9"

GetStableDocKey(doc) ==
    IF "chunk_id" \in DOMAIN doc.metadata
    THEN MetaGet(doc.metadata, "source_file", "unknown") \o ":"
         \o ToString(MetaGet(doc.metadata, "page", 0)) \o ":" \o doc.metadata["chunk_id"]
    ELSE MetaGet(doc.metadata, "source_file", "unknown") \o ":"
         \o ToString(MetaGet(doc.metadata, "page", 0)) \o ":"
         \o Md5Hex8(doc.page_content.head)

Keys(docs) == {GetStableDocKey(docs[i]) : i \in DOMAIN docs}

\* ------------------------------------------------------------ recall
\* vectorstore.similarity_search_with_score(query, k): the k nearest entries,
\* nearest first.  hits is the store's full answer for the query.
SimilaritySearchWithScore(hits, k) == Take(hits, k)

RecallK(topN, topK) == Max2(topN, topK * 4)

\* BM25Index._tokenize: jieba.cut_for_search(text.lower()); the empty text
\* has no tokens, a word is its own token.
Queries == {"", "sphericity"}

Tokenize(text) == IF text = "" THEN <<>> ELSE <<text>>

\* self.bm25.get_scores(query_tokens): one score per corpus document, the
\* sum over the query tokens of the token's weight in the document (answer
\* is what the library computes for a query with tokens).
GetScores(documents, query_tokens, answer) ==
    IF query_tokens = <<>> THEN [i \in DOMAIN documents |-> 0] ELSE answer

\* BM25Index.__init__: BM25Okapi(tokenized_corpus).  rank_bm25 divides by
\* the corpus size for the average document length, so an empty corpus
\* raises ZeroDivisionError (FALSE: no index object); a build whose library
\* accepts an empty corpus yields an index without documents.
BM25IndexInit(documents) == IF documents = <<>> THEN BOOLEAN ELSE {TRUE}

\* BM25Index.search cutting the corpus to top_k before it sorts
BM25SearchCutFirst(documents, scores, k) ==
    LET indexed == [i \in DOMAIN documents |-> [doc |-> documents[i], score |-> scores[i]]]
    IN  SortDescStable(Take(indexed, k))

\* BM25Index.search: indices sorted by score descending (stable), cut to
\* top_k, returned as (document, score) pairs.
BM25Search(documents, scores, k) ==
    LET indexed == [i \in DOMAIN documents |-> [doc |-> documents[i], score |-> scores[i]]]
    IN  Take(SortDescStable(indexed), k)

\* ------------------------------------------------------------ fusion
\* the denominator without the guard epsilon
VecDenNoEps(vr) ==
    IF vr = <<>> THEN 1
    ELSE LET ds == [i \in DOMAIN vr |-> vr[i].score]
         IN  EpsInv * (SeqMax(ds) - SeqMin(ds))

VecDen(vr) ==
    IF vr = <<>> THEN 1
    ELSE LET ds == [i \in DOMAIN vr |-> vr[i].score]
         IN  EpsInv * (SeqMax(ds) - SeqMin(ds)) + 1

\* the normalisation without its "1 -": the distance is not inverted
VecNormNumNotInverted(vr, d) ==
    LET ds == [i \in DOMAIN vr |-> vr[i].score]
    IN  0 - EpsInv * (d - SeqMin(ds))

\* numerator over VecDen(vr) of  1 - (score - min) / (range + 1e-10)
VecNormNum(vr, d) ==
    LET ds == [i \in DOMAIN vr |-> vr[i].score]
    IN  VecDen(vr) - EpsInv * (d - SeqMin(ds))

\* the lexical normalisation dividing by the smallest score
LexDenByMin(br) ==
    IF br = <<>> THEN 1
    ELSE LET ss == [i \in DOMAIN br |-> br[i].score]
         IN  EpsInv * SeqMin(ss) + 1

LexDen(br) ==
    IF br = <<>> THEN 1
    ELSE LET ss == [i \in DOMAIN br |-> br[i].score]
         IN  EpsInv * SeqMax(ss) + 1

\* numerator over LexDen(br) of  score / (max + 1e-10)
LexNormNum(s) == EpsInv * s

KeyIndex(doc_scores, key) ==
    IF \E i \in DOMAIN doc_scores : doc_scores[i].key = key
    THEN CHOOSE i \in DOMAIN doc_scores : doc_scores[i].key = key
    ELSE 0

\* fusion keyed by object identity: every hit opens an entry of its own
AccumulateByObject(doc_scores, doc, contribution) ==
    Append(doc_scores, [key |-> GetStableDocKey(doc), doc |-> doc, score |-> contribution])

\* fusion that keeps the instance seen last as a key's document
AccumulateKeepsLast(doc_scores, doc, contribution) ==
    LET key == GetStableDocKey(doc)
        opened == IF KeyIndex(doc_scores, key) = 0
                  THEN Append(doc_scores, [key |-> key, doc |-> doc, score |-> 0])
                  ELSE doc_scores
        i == KeyIndex(opened, key)
    IN  [opened EXCEPT ![i].score = @ + contribution, ![i].doc = doc]

\* doc_scores is the dict of the code in insertion order.
\*   if doc_key not in doc_scores: doc_scores[doc_key] = (doc, 0.0)
\*   doc_scores[doc_key] = (current_doc, current_score + contribution)
Accumulate(doc_scores, doc, contribution) ==
    LET key == GetStableDocKey(doc)
        opened == IF KeyIndex(doc_scores, key) = 0
                  THEN Append(doc_scores, [key |-> key, doc |-> doc, score |-> 0])
                  ELSE doc_scores
        i == KeyIndex(opened, key)
    IN  [opened EXCEPT ![i].score = @ + contribution]

RECURSIVE FuseVector(_, _, _, _, _)
FuseVector(doc_scores, vr, br, vw, i) ==
    IF i > Len(vr) THEN doc_scores
    ELSE Only({FuseVector(t, vr, br, vw, i + 1) : t \in
            {Accumulate(doc_scores, vr[i].doc, VecNormNum(vr, vr[i].score) * vw * LexDen(br))}})

RECURSIVE FuseBM25(_, _, _, _, _)
FuseBM25(doc_scores, vr, br, bw, i) ==
    IF i > Len(br) THEN doc_scores
    ELSE Only({FuseBM25(t, vr, br, bw, i + 1) : t \in
            {Accumulate(doc_scores, br[i].doc, LexNormNum(br[i].score) * bw * VecDen(vr))}})

\* fusion that processes the lexical results before the vector results
DocScoresLexicalFirst(vr, br, vw, bw) ==
    Only({FuseVector(t, vr, br, vw, 1) : t \in {FuseBM25(<<>>, vr, br, bw, 1)}})

\* lines 136-180: the fused map, then sorted by fused score, descending.
DocScores(vr, br, vw, bw) ==
    Only({FuseBM25(t, vr, br, bw, 1) : t \in {FuseVector(<<>>, vr, br, vw, 1)}})

SortedCandidates(vr, br, vw, bw) ==
    Only({SortDescStable(t) : t \in {DocScores(vr, br, vw, bw)}})

DocsOf(scored) == [i \in DOMAIN scored |-> scored[i].doc]

\* ------------------------------------------------------------ reranker
\* The import outcome of reranker.py lines 18-27 and whether loading the
\* model succeeds: st = SENTENCE_TRANSFORMERS_AVAILABLE, tf =
\* TRANSFORMERS_AVAILABLE (only set when st is False), loads = the model
\* constructor / from_pretrained returns instead of raising.
Envs == {[st |-> TRUE, tf |-> FALSE, loads |-> TRUE],
         [st |-> TRUE, tf |-> FALSE, loads |-> FALSE],
         [st |-> FALSE, tf |-> TRUE, loads |-> TRUE],
         [st |-> FALSE, tf |-> TRUE, loads |-> FALSE],
         [st |-> FALSE, tf |-> FALSE, loads |-> FALSE]}

\* _load_model: the fields it leaves, and whether it raised.
LoadModel(e) ==
    IF e.st
    THEN IF e.loads
         THEN [model |-> "CrossEncoder", use_transformers |-> FALSE, raised |-> FALSE]
         ELSE [model |-> None, use_transformers |-> FALSE, raised |-> TRUE]
    ELSE IF e.tf
         THEN IF e.loads
              THEN [model |-> None, use_transformers |-> TRUE, raised |-> FALSE]
              ELSE [model |-> None, use_transformers |-> FALSE, raised |-> TRUE]
         ELSE [model |-> None, use_transformers |-> FALSE, raised |-> TRUE]

\* reranker=None
NoReranker == [class |-> "NoneType", model |-> None, use_transformers |-> FALSE, batch_size |-> 0]

\* CrossEncoderReranker.__init__
CrossEncoderReranker(e, bs) ==
    LET l == LoadModel(e)
    IN  [class |-> "CrossEncoderReranker",
         model |-> IF l.raised THEN None ELSE l.model,
         use_transformers |-> l.use_transformers,
         batch_size |-> bs]

\* create_reranker(config)
CreateReranker(enabled, e, bs) ==
    IF ~enabled THEN NoReranker
    ELSE LET r == CrossEncoderReranker(e, bs)
         IN  IF r.model = None THEN NoReranker ELSE r

Available(r) == ~(r.model = None /\ ~r.use_transformers)

\* What the scoring backend answers for (query, page_content[:512]): one of
\* three fixed relevance tables (a deterministic model).
Relevance(profile, doc) ==
    LET c == doc.page_content
        n == CASE c.head = "p1" /\ c.tail = "t1" -> 1
               [] c.head = "p1" /\ c.tail = "t2" -> 2
               [] c.head = "p2" -> 3
               [] OTHER -> 4
    IN  CASE profile = "asc" -> 2 * n
          [] profile = "desc" -> 10 - 2 * n
          [] OTHER -> 2 * (n % 2)

Uniform(documents) == [i \in DOMAIN documents |-> UniformScore]

\* the transformers path of score: batches of batch_size, scores.extend
RECURSIVE BatchLoop(_, _, _, _, _)
BatchLoop(profile, documents, bs, i, scores) ==
    IF i >= Len(documents) THEN scores
    ELSE LET batch == SubSeq(documents, i + 1, Min2(i + bs, Len(documents)))
             batch_scores == [j \in DOMAIN batch |-> Relevance(profile, batch[j])]
         IN  BatchLoop(profile, documents, bs, i + bs, scores \o batch_scores)

\* CrossEncoderReranker.score for a loaded reranker.  outcome is what the
\* backend call does: "ok" (returns scores), "raise" (raises inside the
\* try: uniform scores) or "malformed" (predict returns a value that is no
\* sequence of numbers; score passes it on, see ScoreMalformed).
Score(r, e, outcome, profile, documents) ==
    IF documents = <<>> THEN <<>>
    ELSE IF outcome = "raise" THEN Uniform(documents)
    ELSE IF e.st
         THEN [i \in DOMAIN documents |-> Relevance(profile, documents[i])]
    ELSE IF r.use_transformers
         THEN BatchLoop(profile, documents, r.batch_size, 0, <<>>)
    ELSE Uniform(documents)

ScoreMalformed(e, outcome, documents) == documents # <<>> /\ e.st /\ outcome = "malformed"

\* rerank raises when zip/sort cannot process what score returned (line 220).
RerankRaises(r, e, outcome, documents) ==
    /\ Available(r)
    /\ documents # <<>>
    /\ ScoreMalformed(e, outcome, documents)

\* rerank without the final [:top_k]
RerankUncut(r, e, outcome, profile, documents, k) ==
    IF ~Available(r) \/ documents = <<>> THEN documents
    ELSE LET scores == Score(r, e, outcome, profile, documents)
             n == Min2(Len(documents), Len(scores))
             scored_docs == [i \in 1..n |-> [doc |-> documents[i], score |-> scores[i]]]
         IN  DocsOf(SortDescStable(scored_docs))

\* rerank that never reorders
RerankKeepsOrder(r, e, outcome, profile, documents, k) == Take(documents, k)

\* rerank that cuts to top_k before it sorts
RerankCutFirst(r, e, outcome, profile, documents, k) ==
    IF ~Available(r) \/ documents = <<>> THEN Take(documents, k)
    ELSE LET scores == Score(r, e, outcome, profile, documents)
             n == Min2(Min2(Len(documents), Len(scores)), k)
             scored_docs == [i \in 1..n |-> [doc |-> documents[i], score |-> scores[i]]]
         IN  DocsOf(SortDescStable(scored_docs))

\* CrossEncoderReranker.rerank, when it returns.
Rerank(r, e, outcome, profile, documents, k) ==
    IF ~Available(r) \/ documents = <<>> THEN Take(documents, k)
    ELSE LET scores == Score(r, e, outcome, profile, documents)
             n == Min2(Len(documents), Len(scores))
             scored_docs == [i \in 1..n |-> [doc |-> documents[i], score |-> scores[i]]]
         IN  DocsOf(Take(SortDescStable(scored_docs), k))

\* ------------------------------------------------------------ LLM reranker
\* One token of content.split(','), and int(token.strip()).
Tokens == {"0", " 1", "2 ", "3", "-1", "10", "x", ""}

IsInt(tok) == tok \in {"0", " 1", "2 ", "3", "-1", "10"}

IntOf(tok) == CASE tok = "0" -> 0
                [] tok = " 1" -> 1
                [] tok = "2 " -> 2
                [] tok = "3" -> 3
                [] tok = "-1" -> 0 - 1
                [] OTHER -> 10

SelectByIndex(documents, indices) ==
    LET F[j \in 0..Len(indices)] ==
            IF j = 0 THEN <<>>
            ELSE IF 0 <= indices[j] /\ indices[j] < Len(documents)
                 THEN Append(F[j - 1], documents[indices[j] + 1])
                 ELSE F[j - 1]
    IN  F[Len(indices)]

\* LLMReranker.rerank.  llm: "none" (no LLM), "raises" (invoke raises) or
\* "answers" with content = the tokens joined by commas.
LLMRerank(llm, documents, k, tokens) ==
    IF llm = "none" \/ documents = <<>> THEN Take(documents, k)
    ELSE IF llm = "raises" THEN Take(documents, k)
    ELSE LET first == Take(tokens, k)
         IN  IF \E j \in DOMAIN first : ~IsInt(first[j])
             THEN Take(documents, k)
             ELSE LET indices == [j \in DOMAIN first |-> IntOf(first[j])]
                      reranked == SelectByIndex(documents, indices)
                  IN  IF reranked # <<>> THEN Take(reranked, k) ELSE Take(documents, k)

\* ------------------------------------------------------------ state
VARIABLES
    top_k, top_n_candidates, vector_weight, bm25_weight, reranker,
    last_recall_time, last_rerank_time,
    env, via,
    vector_hits, bm25_documents, bm25_scores, bm25_built, query,
    outcome, profile,
    now, callers, frame, lexical, scoring, agent,
    llm, llm_documents, llm_top_k, llm_tokens, llm_result, llm_done

retriever == <<top_k, top_n_candidates, vector_weight, bm25_weight, reranker>>

world == <<env, via, vector_hits, bm25_documents, bm25_scores, bm25_built, query,
           outcome, profile, callers>>

llmvars == <<llm, llm_documents, llm_top_k, llm_tokens, llm_result, llm_done>>

aux == <<scoring, agent>>

vars ==
    <<retriever, last_recall_time, last_rerank_time, world, now, frame, lexical, aux, llmvars>>

NoTiming == [recall_time |-> 0, rerank_time |-> 0, total_time |-> 0]

\* the locals of one search call before it starts
IdleFrame ==
    [pc |-> "idle", recall_start |-> 0, vector_results |-> <<>>, bm25_results |-> <<>>,
     sorted_candidates |-> <<>>, recall_time |-> 0, candidate_docs |-> <<>>,
     rerank_start |-> 0, rerank_candidates |-> <<>>, rerank_calls |-> 0, rerank_time |-> 0,
     branch |-> "", final_docs |-> <<>>, return_timing |-> FALSE, timing |-> NoTiming,
     recall_first |-> "vector"]

\* a direct call of BM25Index.search before it starts
IdleLexical == [pc |-> "idle", top_k |-> 0, results |-> <<>>]

\* one call of CrossEncoderReranker.score on its transformers path, before it
\* starts: i is the loop variable, batches the lengths of the batches taken,
\* scored the indexes of the candidates handed to the model, in order
IdleScoring ==
    [pc |-> "idle", documents |-> <<>>, batch_size |-> 1, i |-> 0, scores |-> <<>>,
     batches |-> <<>>, scored |-> <<>>]

\* one call of ResearchAgent.run before it starts
IdleAgent ==
    [pc |-> "idle", messages |-> <<>>, steps |-> 0, recursion_limit |-> 0,
     max_iterations |-> 0, config |-> [given |-> FALSE, recursion_limit |-> 0],
     channel |-> "LastValue", result |-> ""]

\* ------------------------------------------------------------ inputs
Dists == 0..MaxDist

Scores == 0..MaxScore

Weights == {0, 35, 65}

Profiles == {"asc", "desc", "ties"}

\* the chunks the loader produces: it sets source_file and file_type and
\* never a chunk_id
Loaded == {i \in DOMAIN Corpus : "chunk_id" \notin DOMAIN Corpus[i].metadata}

\* subsequences (in corpus order) of at most MaxDocs of the chunks in ids
ChunkListsOf(ids) ==
    {c \in UNION {[1..n -> ids] : n \in 0..MaxDocs} :
        \A i, j \in DOMAIN c : i < j => c[i] < c[j]}

ChunkLists == ChunkListsOf(DOMAIN Corpus)

\* answers of the vector store: distinct entries, nearest first
VectorAnswersOf(ids) ==
    {[i \in DOMAIN c |-> [doc |-> Document(Corpus[c[i]], "v"), score |-> d[i]]] :
        <<c, d>> \in {cd \in UNION {[1..n -> ids] \X [1..n -> Dists] : n \in 0..MaxDocs} :
            /\ \A i, j \in DOMAIN cd[1] : i < j => cd[1][i] # cd[1][j] /\ cd[2][i] <= cd[2][j]}}

VectorAnswers == VectorAnswersOf(DOMAIN Corpus)

BM25CorporaOf(ids) == {[i \in DOMAIN c |-> Document(Corpus[c[i]], "l")] : c \in ChunkListsOf(ids)}

BM25Corpora == BM25CorporaOf(DOMAIN Corpus)

\* HybridRetriever.__init__: top_n_candidates or (top_k * 8); 0 stands for
\* an argument that is None.
TopNCandidates(param, k) == IF param = 0 THEN k * 8 ELSE param

InitRetriever(k, n, vw, bw, r) ==
    /\ top_k = k
    /\ top_n_candidates = TopNCandidates(n, k)
    /\ vector_weight = vw
    /\ bm25_weight = bw
    /\ reranker = r
    /\ last_recall_time = 0
    /\ last_rerank_time = 0

InitLLMIdle ==
    /\ llm = "none"
    /\ llm_documents = <<>>
    /\ llm_top_k = 1
    /\ llm_tokens = <<>>
    /\ llm_result = <<>>
    /\ llm_done = FALSE

\* ------------------------------------------------------------ search
Set(c, f) == frame' = [frame EXCEPT ![c] = f]

Tick == now' = now + 1

\* line 120: recall_start = time.time()
SearchStart(c) ==
    /\ c \in callers
    /\ bm25_built
    /\ frame[c].pc = "idle"
    /\ Set(c, [frame[c] EXCEPT !.pc = "vector", !.recall_start = now])
    /\ Tick
    /\ UNCHANGED <<retriever, last_recall_time, last_rerank_time, world, lexical, aux, llmvars>>

\* lines 124-130
VectorSearch(c) ==
    /\ frame[c].pc = "vector"
    /\ Set(c, [frame[c] EXCEPT
            !.pc = "bm25",
            !.vector_results =
                SimilaritySearchWithScore(vector_hits, RecallK(top_n_candidates, top_k))])
    /\ Tick
    /\ UNCHANGED <<retriever, last_recall_time, last_rerank_time, world, lexical, aux, llmvars>>

\* line 133
Bm25Search(c) ==
    /\ frame[c].pc = "bm25"
    /\ Set(c, [frame[c] EXCEPT
            !.pc = "fuse",
            !.bm25_results =
                BM25Search(bm25_documents,
                           GetScores(bm25_documents, Tokenize(query), bm25_scores),
                           RecallK(top_n_candidates, top_k))])
    /\ Tick
    /\ UNCHANGED <<retriever, last_recall_time, last_rerank_time, world, lexical, aux, llmvars>>

\* The two recall calls in the other order (the statements of lines 127-130
\* and 133 exchanged, as when the two calls run in parallel and the lexical
\* one completes first): line 133 first ...
Bm25SearchEarly(c) ==
    /\ frame[c].pc = "vector"
    /\ Set(c, [frame[c] EXCEPT
            !.pc = "vector_late",
            !.recall_first = "bm25",
            !.bm25_results =
                BM25Search(bm25_documents,
                           GetScores(bm25_documents, Tokenize(query), bm25_scores),
                           RecallK(top_n_candidates, top_k))])
    /\ Tick
    /\ UNCHANGED <<retriever, last_recall_time, last_rerank_time, world, lexical, aux, llmvars>>

\* a vector search that leaves out the chunks the lexical search has returned
VectorSearchLateShared(c) ==
    /\ frame[c].pc = "vector_late"
    /\ LET Unseen(h) == GetStableDocKey(h.doc) \notin Keys(DocsOf(frame[c].bm25_results))
       IN  Set(c, [frame[c] EXCEPT
                !.pc = "fuse",
                !.vector_results =
                    SimilaritySearchWithScore(SelectSeq(vector_hits, Unseen),
                                              RecallK(top_n_candidates, top_k))])
    /\ Tick
    /\ UNCHANGED <<retriever, last_recall_time, last_rerank_time, world, lexical, aux, llmvars>>

\* ... then lines 124-130
VectorSearchLate(c) ==
    /\ frame[c].pc = "vector_late"
    /\ Set(c, [frame[c] EXCEPT
            !.pc = "fuse",
            !.vector_results =
                SimilaritySearchWithScore(vector_hits, RecallK(top_n_candidates, top_k))])
    /\ Tick
    /\ UNCHANGED <<retriever, last_recall_time, last_rerank_time, world, lexical, aux, llmvars>>

\* fusion that does not wait for the lexical search to return
FuseDedupEarly(c) ==
    /\ frame[c].pc \in {"bm25", "fuse"}
    /\ \E sorted \in {SortedCandidates(frame[c].vector_results, frame[c].bm25_results,
                                        vector_weight, bm25_weight)} :
       LET rt == now - frame[c].recall_start
       IN  /\ Set(c, [frame[c] EXCEPT
                    !.pc = "stage2",
                    !.sorted_candidates = sorted,
                    !.recall_time = rt,
                    !.candidate_docs = DocsOf(sorted),
                    !.rerank_start = now])
           /\ last_recall_time' = rt
    /\ Tick
    /\ UNCHANGED <<retriever, last_rerank_time, world, lexical, aux, llmvars>>

\* lines 136-189: fusion, sort, recall_time, candidate_docs, rerank_start
FuseDedup(c) ==
    /\ frame[c].pc = "fuse"
    /\ \E sorted \in {SortedCandidates(frame[c].vector_results, frame[c].bm25_results,
                                        vector_weight, bm25_weight)} :
       LET rt == now - frame[c].recall_start
       IN  /\ Set(c, [frame[c] EXCEPT
                    !.pc = "stage2",
                    !.sorted_candidates = sorted,
                    !.recall_time = rt,
                    !.candidate_docs = DocsOf(sorted),
                    !.rerank_start = now])
           /\ last_recall_time' = rt
    /\ Tick
    /\ UNCHANGED <<retriever, last_rerank_time, world, lexical, aux, llmvars>>

\* a guard that also reads the instance's timing field of the last call
RerankGuardStateful(c) ==
    /\ reranker # NoReranker
    /\ Len(frame[c].candidate_docs) > top_k
    /\ last_rerank_time = 0

\* line 191
RerankGuard(c) == reranker # NoReranker /\ Len(frame[c].candidate_docs) > top_k

\* lines 193-210: reranker.rerank returns
RerankStage(c) ==
    /\ frame[c].pc = "stage2"
    /\ RerankGuard(c)
    /\ LET rerank_candidates == Take(frame[c].candidate_docs, top_n_candidates)
       IN  /\ ~RerankRaises(reranker, env, outcome, rerank_candidates)
           /\ Set(c, [frame[c] EXCEPT
                    !.pc = "return",
                    !.branch = "RERANK",
                    !.rerank_candidates = rerank_candidates,
                    !.rerank_calls = @ + 1,
                    !.rerank_time = now - frame[c].rerank_start,
                    !.final_docs =
                        Rerank(reranker, env, outcome, profile, rerank_candidates, top_k)])
           /\ last_rerank_time' = now - frame[c].rerank_start
    /\ Tick
    /\ UNCHANGED <<retriever, last_recall_time, world, lexical, aux, llmvars>>

\* the exception of reranker.rerank is not caught: the call ends raising
RerankFailedPropagates(c) ==
    /\ frame[c].pc = "stage2"
    /\ reranker # NoReranker /\ Len(frame[c].candidate_docs) > top_k
    /\ LET rerank_candidates == Take(frame[c].candidate_docs, top_n_candidates)
       IN  /\ RerankRaises(reranker, env, outcome, rerank_candidates)
           /\ Set(c, [frame[c] EXCEPT
                    !.pc = "raised",
                    !.branch = "RERANK_FAILED",
                    !.rerank_candidates = rerank_candidates,
                    !.rerank_calls = @ + 1])
           /\ last_rerank_time' = last_rerank_time
    /\ Tick
    /\ UNCHANGED <<retriever, last_recall_time, world, lexical, aux, llmvars>>

\* lines 193-201, 211-214: reranker.rerank raises
RerankFailed(c) ==
    /\ frame[c].pc = "stage2"
    /\ RerankGuard(c)
    /\ LET rerank_candidates == Take(frame[c].candidate_docs, top_n_candidates)
       IN  /\ RerankRaises(reranker, env, outcome, rerank_candidates)
           /\ Set(c, [frame[c] EXCEPT
                    !.pc = "return",
                    !.branch = "RERANK_FAILED",
                    !.rerank_candidates = rerank_candidates,
                    !.rerank_calls = @ + 1,
                    !.final_docs = Take(frame[c].candidate_docs, top_k)])
           /\ last_rerank_time' = 0
    /\ Tick
    /\ UNCHANGED <<retriever, last_recall_time, world, lexical, aux, llmvars>>

\* lines 215-218
SkipRerank(c) ==
    /\ frame[c].pc = "stage2"
    /\ ~RerankGuard(c)
    /\ Set(c, [frame[c] EXCEPT
            !.pc = "return",
            !.branch = "SKIP",
            !.final_docs = Take(frame[c].candidate_docs, top_k)])
    /\ last_rerank_time' = 0
    /\ Tick
    /\ UNCHANGED <<retriever, last_recall_time, world, lexical, aux, llmvars>>

\* lines 220-228
Return(c) ==
    /\ frame[c].pc = "return"
    /\ \E rt \in BOOLEAN :
        Set(c, [frame[c] EXCEPT
            !.pc = "done",
            !.return_timing = rt,
            !.timing = IF rt
                       THEN [recall_time |-> last_recall_time,
                             rerank_time |-> last_rerank_time,
                             total_time |-> last_recall_time + last_rerank_time]
                       ELSE NoTiming])
    /\ Tick
    /\ UNCHANGED <<retriever, last_recall_time, last_rerank_time, world, lexical, aux, llmvars>>

Next ==
    \E c \in Calls :
        \/ SearchStart(c)
        \/ VectorSearch(c)
        \/ Bm25Search(c)
        \/ FuseDedup(c)
        \/ RerankStage(c)
        \/ RerankFailed(c)
        \/ SkipRerank(c)
        \/ Return(c)

\* ------------------------------------------------------------ Init
BatchSizes == {2}

Rerankers == {NoReranker} \cup {CrossEncoderReranker(e, bs) : e \in Envs, bs \in BatchSizes}

\* How the retriever got its reranker: passed to HybridRetriever directly,
\* or made by create_reranker (create_retriever_tool, test_reranker.py);
\* and, for a loaded reranker, what its scoring backend does.
InitReranker(r) ==
    \E enabled \in BOOLEAN, e \in Envs, bs \in BatchSizes :
        /\ env = e
        /\ ~enabled => e = [st |-> TRUE, tf |-> FALSE, loads |-> TRUE]
        /\ \/ via = "direct" /\ r = IF enabled THEN CrossEncoderReranker(e, bs) ELSE NoReranker
           \/ via = "create_reranker" /\ r = CreateReranker(enabled, e, bs)
        /\ IF r # NoReranker /\ Available(r)
           THEN /\ outcome \in IF e.st THEN {"ok", "raise", "malformed"} ELSE {"ok", "raise"}
                /\ profile \in IF outcome = "ok" THEN Profiles ELSE {"asc"}
           ELSE outcome = "ok" /\ profile = "asc"

InitNoReranker(r) ==
    /\ r = NoReranker
    /\ env = [st |-> TRUE, tf |-> FALSE, loads |-> TRUE]
    /\ via = "direct"
    /\ outcome = "ok"
    /\ profile = "asc"

\* every answer of the two indexes over loaded chunks within the bounds
InitIndex ==
    /\ vector_hits \in VectorAnswersOf(Loaded)
    /\ bm25_documents \in BM25CorporaOf(Loaded)
    /\ bm25_scores \in [DOMAIN bm25_documents -> Scores]
    /\ bm25_built \in BM25IndexInit(bm25_documents)

\* ranked answers: the i-th vector hit at distance i - 1, lexical scores
\* rising or falling along the corpus
InitRankedIndex ==
    /\ vector_hits \in {a \in VectorAnswers : \A i \in DOMAIN a : a[i].score = i - 1}
    /\ bm25_documents \in BM25Corpora
    /\ bm25_scores \in {[i \in DOMAIN bm25_documents |-> i - 1],
                        [i \in DOMAIN bm25_documents |-> Len(bm25_documents) - i]}
    /\ bm25_built \in BM25IndexInit(bm25_documents)

InitCalls(cs) ==
    /\ now = 0
    /\ callers = cs
    /\ frame = [c \in Calls |-> IdleFrame]
    /\ query = "sphericity"
    /\ lexical = IdleLexical
    /\ scoring = IdleScoring
    /\ agent = IdleAgent
    /\ InitLLMIdle

\* one search call; every reranker, top_k and top_n_candidates; the default
\* weights; ranked index answers
Init ==
    /\ \E k \in 1..MaxTopK, n \in 0..MaxTopK, r \in Rerankers :
        /\ InitReranker(r)
        /\ InitRetriever(k, n, 65, 35, r)
    /\ InitRankedIndex
    /\ InitCalls({1})

Spec == Init /\ [][Next]_vars

\* one search call, every reranker, both indexes built from the same
\* documents (build_indexes).  A call that has started keeps running:
\* search has no wait and no loop but those over its finite result lists.
InitLive ==
    /\ \E k \in 1..MaxTopK, r \in Rerankers :
        /\ InitReranker(r)
        /\ InitRetriever(k, 0, 65, 35, r)
    /\ InitRankedIndex
    /\ \A i \in DOMAIN vector_hits :
        /\ i \in DOMAIN bm25_documents
        /\ bm25_documents[i].page_content = vector_hits[i].doc.page_content
    /\ Len(bm25_documents) = Len(vector_hits)
    /\ InitCalls({1})

SpecLive == InitLive /\ [][Next]_vars /\ WF_vars(Next)

\* one search call without reranker; every weight and every index answer
InitFusion ==
    /\ \E vw \in Weights, bw \in Weights \ {0}, r \in Rerankers :
        /\ InitNoReranker(r)
        /\ InitRetriever(MaxTopK, 0, vw, bw, r)
    /\ InitIndex
    /\ InitCalls({1})

NextFusion ==
    \E c \in Calls :
        \/ SearchStart(c)
        \/ VectorSearch(c)
        \/ Bm25Search(c)
        \/ FuseDedup(c)
        \/ SkipRerank(c)
        \/ Return(c)

SpecFusion == InitFusion /\ [][NextFusion]_vars

\* one search call without reranker whose recall calls run in either order
NextRecallOrder ==
    \E c \in Calls :
        \/ SearchStart(c)
        \/ VectorSearch(c)
        \/ Bm25Search(c)
        \/ Bm25SearchEarly(c)
        \/ VectorSearchLate(c)
        \/ FuseDedup(c)
        \/ SkipRerank(c)
        \/ Return(c)

SpecRecallOrder == InitFusion /\ [][NextRecallOrder]_vars

\* two search calls on one retriever, interleaved in every way; both
\* indexes built from the same documents (build_indexes)
InitPair ==
    /\ \E r \in Rerankers :
        /\ InitReranker(r)
        /\ via = "direct"
        /\ r = NoReranker \/ env.st
        /\ profile \in {"asc", "desc"}
        /\ InitRetriever(1, 0, 65, 35, r)
    /\ InitRankedIndex
    /\ \A i \in DOMAIN vector_hits :
        /\ i \in DOMAIN bm25_documents
        /\ bm25_documents[i].page_content = vector_hits[i].doc.page_content
    /\ Len(bm25_documents) = Len(vector_hits)
    /\ InitCalls(Calls)

SpecPair == InitPair /\ [][Next]_vars

\* model.predict answers one call with scores and another with a value that
\* is no sequence of numbers: what the backend does changes between calls
BackendOutcome ==
    /\ reranker # NoReranker /\ Available(reranker) /\ env.st
    /\ outcome \in {"ok", "malformed"}
    /\ outcome' = IF outcome = "ok" THEN "malformed" ELSE "ok"
    /\ UNCHANGED <<retriever, last_recall_time, last_rerank_time, env, via, vector_hits,
                   bm25_documents, bm25_scores, bm25_built, query, profile, callers,
                   now, frame, lexical, aux, llmvars>>

NextPairBackend == Next \/ BackendOutcome

\* two concurrent calls on one retriever, the backend failing for some calls
SpecPairBackend == InitPair /\ [][NextPairBackend]_vars

\* ------------------------------------------------------------ LLMReranker
MaxTokens == 3

LLMDocCounts == {0, 1, 2, 3, LLMWindow + 1}

\* LLMReranker.rerank(query, documents, top_k); candidate i is documents[i]
LLMRerankCall ==
    /\ ~llm_done
    /\ llm_result' = LLMRerank(llm, llm_documents, llm_top_k, llm_tokens)
    /\ llm_done' = TRUE
    /\ UNCHANGED <<retriever, last_recall_time, last_rerank_time, world, now, frame,
                   lexical, aux, llm, llm_documents, llm_top_k, llm_tokens>>

InitLLM ==
    /\ InitNoReranker(reranker)
    /\ InitRetriever(1, 0, 65, 35, NoReranker)
    /\ vector_hits = <<>>
    /\ bm25_documents = <<>>
    /\ bm25_scores = <<>>
    /\ bm25_built = FALSE
    /\ query = "sphericity"
    /\ lexical = IdleLexical
    /\ scoring = IdleScoring
    /\ agent = IdleAgent
    /\ now = 0
    /\ callers = {}
    /\ frame = [c \in Calls |-> IdleFrame]
    /\ llm \in {"none", "raises", "answers"}
    /\ llm_documents \in {[i \in 1..n |-> i - 1] : n \in LLMDocCounts}
    /\ llm_top_k \in 1..MaxTokens
    /\ llm_tokens \in IF llm = "answers"
                      THEN UNION {[1..n -> Tokens] : n \in 1..MaxTokens}
                      ELSE {<<>>}
    /\ llm_result = <<>>
    /\ llm_done = FALSE

SpecLLM == InitLLM /\ [][LLMRerankCall]_vars

\* ------------------------------------------------------------ BM25Index
\* BM25Index.search(query, top_k) called directly
IndexSearch ==
    /\ bm25_built
    /\ lexical.pc = "idle"
    /\ lexical' = [lexical EXCEPT
            !.pc = "done",
            !.results = BM25Search(bm25_documents,
                                   GetScores(bm25_documents, Tokenize(query), bm25_scores),
                                   lexical.top_k)]
    /\ UNCHANGED <<retriever, last_recall_time, last_rerank_time, world, now, frame, aux,
                   llmvars>>

\* an index over every corpus within the bounds, every query and top_k
InitLexical ==
    /\ InitNoReranker(reranker)
    /\ InitRetriever(1, 0, 65, 35, NoReranker)
    /\ vector_hits = <<>>
    /\ bm25_documents \in BM25Corpora
    /\ bm25_scores \in [DOMAIN bm25_documents -> Scores]
    /\ bm25_built \in BM25IndexInit(bm25_documents)
    /\ query \in Queries
    /\ \E k \in 0..MaxTopK : lexical = [IdleLexical EXCEPT !.top_k = k]
    /\ scoring = IdleScoring
    /\ agent = IdleAgent
    /\ now = 0
    /\ callers = {}
    /\ frame = [c \in Calls |-> IdleFrame]
    /\ InitLLMIdle

SpecIndex == InitLexical /\ [][IndexSearch]_vars

\* ------------------------------------------------------------ agent
\* research_agent.py.  Messages are kept by their kind: "human", "ai" (an
\* AIMessage without tool calls), "ai_tools" (an AIMessage with tool calls),
\* "tool".  A step is one node execution of the compiled graph; the graph
\* raises GraphRecursionError when a node is due after recursion_limit steps.
MaxIterations == 3

\* the update a node returns, written to the messages channel of AgentState:
\* the annotation of messages (lines 19-21) names no reducer, so the channel
\* keeps the last value written; a channel that appends is modelled as well
WriteMessages(channel, messages, update) ==
    IF channel = "LastValue" THEN update ELSE messages \o update

\* lines 128-141
ShouldContinue(messages) ==
    IF messages = <<>> THEN "end"
    ELSE IF messages[Len(messages)] = "ai_tools" THEN "tools"
    ELSE "end"

\* lines 204-212: the content run returns from the final state
ExtractResponse(messages) ==
    IF \E i \in DOMAIN messages : messages[i] = "ai" THEN "content" ELSE "fallback"

\* lines 189-196: initial_state, config_dict = config or {"recursion_limit": max_iterations}
RunStart ==
    /\ agent.pc = "idle"
    /\ agent' = [agent EXCEPT
            !.pc = "agent",
            !.messages = <<"human">>,
            !.steps = 0,
            !.recursion_limit = IF agent.config.given
                                THEN agent.config.recursion_limit
                                ELSE agent.max_iterations]
    /\ UNCHANGED <<retriever, last_recall_time, last_rerank_time, world, now, frame, lexical,
                   scoring, llmvars>>

\* lines 198-201, 214-219: the graph has a node due after recursion_limit
\* steps; graph.invoke raises GraphRecursionError, run returns "[ERROR] ..."
RecursionLimit ==
    /\ agent.pc \in {"agent", "tools"}
    /\ agent.steps >= agent.recursion_limit
    /\ agent' = [agent EXCEPT !.pc = "returned", !.result = "error"]
    /\ UNCHANGED <<retriever, last_recall_time, last_rerank_time, world, now, frame, lexical,
                   scoring, llmvars>>

\* an agent node after which the graph always ends
AgentNodeEnds ==
    /\ agent.pc = "agent"
    /\ agent.steps < agent.recursion_limit
    /\ \E response \in {"ai", "ai_tools", "raise"} :
        IF response = "raise"
        THEN agent' = [agent EXCEPT !.pc = "returned", !.result = "error"]
        ELSE agent' = [agent EXCEPT
                !.messages = WriteMessages(agent.channel, agent.messages, <<response>>),
                !.steps = @ + 1,
                !.pc = "end"]
    /\ UNCHANGED <<retriever, last_recall_time, last_rerank_time, world, now, frame, lexical,
                   scoring, llmvars>>

\* lines 113-125, 154-161: agent_node calls the LLM (which answers without
\* tool calls, with tool calls, or raises), then should_continue routes
AgentNode ==
    /\ agent.pc = "agent"
    /\ agent.steps < agent.recursion_limit
    /\ \E response \in {"ai", "ai_tools", "raise"} :
        IF response = "raise"
        THEN agent' = [agent EXCEPT !.pc = "returned", !.result = "error"]
        ELSE LET messages == WriteMessages(agent.channel, agent.messages, <<response>>)
             IN  agent' = [agent EXCEPT
                    !.messages = messages,
                    !.steps = @ + 1,
                    !.pc = IF ShouldContinue(messages) = "tools" THEN "tools" ELSE "end"]
    /\ UNCHANGED <<retriever, last_recall_time, last_rerank_time, world, now, frame, lexical,
                   scoring, llmvars>>

\* lines 110, 148, 164: tool_node runs the tool calls (or raises), then the
\* edge back to agent
ToolsNode ==
    /\ agent.pc = "tools"
    /\ agent.steps < agent.recursion_limit
    /\ \E raises \in BOOLEAN :
        IF raises
        THEN agent' = [agent EXCEPT !.pc = "returned", !.result = "error"]
        ELSE agent' = [agent EXCEPT
                !.messages = WriteMessages(agent.channel, agent.messages, <<"tool">>),
                !.steps = @ + 1,
                !.pc = "agent"]
    /\ UNCHANGED <<retriever, last_recall_time, last_rerank_time, world, now, frame, lexical,
                   scoring, llmvars>>

\* lines 203-212: the graph reached END, run returns the response
RunReturn ==
    /\ agent.pc = "end"
    /\ agent' = [agent EXCEPT !.pc = "returned", !.result = ExtractResponse(agent.messages)]
    /\ UNCHANGED <<retriever, last_recall_time, last_rerank_time, world, now, frame, lexical,
                   scoring, llmvars>>

NextAgent == RunStart \/ AgentNode \/ ToolsNode \/ RecursionLimit \/ RunReturn

\* run(query, max_iterations, config): config None, or a config whose
\* recursion limit (its "recursion_limit" entry, or the graph's default when
\* it has none) is any number
InitAgent ==
    /\ InitNoReranker(reranker)
    /\ InitRetriever(1, 0, 65, 35, NoReranker)
    /\ vector_hits = <<>>
    /\ bm25_documents = <<>>
    /\ bm25_scores = <<>>
    /\ bm25_built = FALSE
    /\ query = "sphericity"
    /\ lexical = IdleLexical
    /\ scoring = IdleScoring
    /\ \E m \in 1..MaxIterations, given \in BOOLEAN, l \in 1..(MaxIterations + 1),
          ch \in {"LastValue", "append"} :
        /\ ~given => l = 1
        /\ agent = [IdleAgent EXCEPT
                !.max_iterations = m,
                !.config = [given |-> given, recursion_limit |-> IF given THEN l ELSE 0],
                !.channel = ch]
    /\ now = 0
    /\ callers = {}
    /\ frame = [c \in Calls |-> IdleFrame]
    /\ InitLLMIdle

\* graph.invoke has no wait of its own: a started run keeps taking steps
\* (the LLM and the tools return or raise)
SpecAgent == InitAgent /\ [][NextAgent]_vars /\ WF_vars(NextAgent)

\* ------------------------------------------------------------ batch loop
MaxBatch == 3
MaxCandidates == 4

\* the environment in which score takes its transformers path
TransformersEnv == [st |-> FALSE, tf |-> TRUE, loads |-> TRUE]

\* lines 125-135, 152: the guards of score, pairs, scores = []
ScoreStart ==
    /\ scoring.pc = "idle"
    /\ Available(reranker)
    /\ scoring' = [scoring EXCEPT
            !.pc = IF scoring.documents = <<>> THEN "done" ELSE "loop",
            !.batch_size = reranker.batch_size,
            !.i = 0,
            !.scores = <<>>]
    /\ UNCHANGED <<retriever, last_recall_time, last_rerank_time, world, now, frame, lexical,
                   agent, llmvars>>

\* a loop whose step is one less than the batch it takes
ScoreBatchOverlapping ==
    /\ scoring.pc = "loop"
    /\ scoring.i < Len(scoring.documents)
    /\ LET last == Min2(scoring.i + scoring.batch_size, Len(scoring.documents))
           batch == SubSeq(scoring.documents, scoring.i + 1, last)
           batch_scores == [j \in DOMAIN batch |-> Relevance(profile, batch[j])]
       IN  scoring' = [scoring EXCEPT
                !.i = @ + Max2(1, scoring.batch_size - 1),
                !.scores = @ \o batch_scores,
                !.batches = Append(@, Len(batch)),
                !.scored = @ \o [j \in DOMAIN batch |-> scoring.i + j]]
    /\ UNCHANGED <<retriever, last_recall_time, last_rerank_time, world, now, frame, lexical,
                   agent, llmvars>>

\* lines 155-183: one iteration of  for i in range(0, len(pairs), batch_size)
ScoreBatch ==
    /\ scoring.pc = "loop"
    /\ scoring.i < Len(scoring.documents)
    /\ LET last == Min2(scoring.i + scoring.batch_size, Len(scoring.documents))
           batch == SubSeq(scoring.documents, scoring.i + 1, last)
           batch_scores == [j \in DOMAIN batch |-> Relevance(profile, batch[j])]
       IN  scoring' = [scoring EXCEPT
                !.i = @ + scoring.batch_size,
                !.scores = @ \o batch_scores,
                !.batches = Append(@, Len(batch)),
                !.scored = @ \o [j \in DOMAIN batch |-> scoring.i + j]]
    /\ UNCHANGED <<retriever, last_recall_time, last_rerank_time, world, now, frame, lexical,
                   agent, llmvars>>

\* line 185: the range is exhausted, return scores
ScoreReturn ==
    /\ scoring.pc = "loop"
    /\ scoring.i >= Len(scoring.documents)
    /\ scoring' = [scoring EXCEPT !.pc = "done"]
    /\ UNCHANGED <<retriever, last_recall_time, last_rerank_time, world, now, frame, lexical,
                   agent, llmvars>>

NextBatch == ScoreStart \/ ScoreBatch \/ ScoreReturn

\* a reranker on the transformers backend with every batch_size >= 1, every
\* list of at most MaxCandidates candidates, every relevance table
InitBatch ==
    /\ \E bs \in 1..MaxBatch :
        InitRetriever(1, 0, 65, 35, CrossEncoderReranker(TransformersEnv, bs))
    /\ env = TransformersEnv
    /\ via = "direct"
    /\ outcome = "ok"
    /\ profile \in Profiles
    /\ vector_hits = <<>>
    /\ bm25_documents = <<>>
    /\ bm25_scores = <<>>
    /\ bm25_built = FALSE
    /\ query = "sphericity"
    /\ lexical = IdleLexical
    /\ \E docs \in UNION {[1..n -> DOMAIN Corpus] : n \in 0..MaxCandidates} :
        scoring = [IdleScoring EXCEPT
            !.documents = [j \in DOMAIN docs |-> Document(Corpus[docs[j]], "v")]]
    /\ agent = IdleAgent
    /\ now = 0
    /\ callers = {}
    /\ frame = [c \in Calls |-> IdleFrame]
    /\ InitLLMIdle

\* score has no wait: a loop that has started keeps taking its steps
SpecBatch == InitBatch /\ [][NextBatch]_vars /\ WF_vars(NextBatch)

\* ------------------------------------------------------------ scenario
MaxScenarioDist == 9
MaxScale == 2

\* The two-chunk ranking scenario: the vector store answers [B, A] with B
\* nearer than A, the lexical index holds [A, B] and scores A five times as
\* high as B; the default weights, no reranker, top_k at least 2.
InitScenario ==
    /\ \E k \in 2..(MaxTopK + 2), r \in Rerankers :
        /\ InitNoReranker(r)
        /\ InitRetriever(k, 0, 65, 35, r)
    /\ \E d1, d2 \in 0..MaxScenarioDist :
        /\ d1 < d2
        /\ vector_hits = <<[doc |-> Document(ChunkB, "v"), score |-> d1],
                           [doc |-> Document(ChunkA, "v"), score |-> d2]>>
    /\ bm25_documents = <<Document(ChunkA, "l"), Document(ChunkB, "l")>>
    /\ \E m \in 1..MaxScale : bm25_scores = <<5 * m, m>>
    /\ bm25_built \in BM25IndexInit(bm25_documents)
    /\ InitCalls({1})

SpecScenario == InitScenario /\ [][NextFusion]_vars

\* ------------------------------------------------------------ claims
Fused(c) == frame[c].pc \in {"stage2", "return", "done"}

Decided(c) == frame[c].pc \in {"return", "done"}

Done(c) == frame[c].pc = "done"

FusionOrderTopK(c) == Take(frame[c].candidate_docs, top_k)

\* C1: whatever the vector and lexical results, top_k >= 1, top_n_candidates
\* and the reranker (none, working, failing, unavailable), the list search
\* returns has at most top_k entries.
C1_BoundedOutput ==
    \A c \in Calls : Decided(c) => Len(frame[c].final_docs) <= top_k

C1_Witness ==
    \E c \in Calls :
        /\ Done(c)
        /\ frame[c].branch = "RERANK"
        /\ Available(reranker) /\ outcome = "ok"
        /\ Len(frame[c].rerank_candidates) > top_k
        /\ Len(frame[c].final_docs) = top_k

\* C2: no two entries of the list search returns share a StableKey, also
\* when the same chunk comes from both searches as two objects, also after
\* the rerank stage.
C2_NoDuplicateKeys ==
    \A c \in Calls :
        Decided(c) =>
            \A i, j \in DOMAIN frame[c].final_docs :
                i < j => GetStableDocKey(frame[c].final_docs[i])
                            # GetStableDocKey(frame[c].final_docs[j])

C2_Witness ==
    \E c \in Calls :
        /\ Done(c)
        /\ frame[c].branch = "RERANK"
        /\ Len(frame[c].final_docs) >= 2
        /\ \E i \in DOMAIN frame[c].vector_results, j \in DOMAIN frame[c].bm25_results :
            /\ frame[c].vector_results[i].doc # frame[c].bm25_results[j].doc
            /\ GetStableDocKey(frame[c].vector_results[i].doc)
                    = GetStableDocKey(frame[c].bm25_results[j].doc)
            /\ GetStableDocKey(frame[c].vector_results[i].doc) \in Keys(frame[c].final_docs)

\* C3: when reranker.rerank raises, search does not raise: it returns the
\* first top_k fused candidates in fusion order.
C3_RerankFailureAbsorbed ==
    \A c \in Calls :
        (/\ frame[c].rerank_calls > 0
         /\ RerankRaises(reranker, env, outcome, frame[c].rerank_candidates))
        => /\ Decided(c)
           /\ frame[c].final_docs = FusionOrderTopK(c)

C3_Witness ==
    \E c \in Calls :
        /\ Done(c)
        /\ frame[c].rerank_calls = 1
        /\ RerankRaises(reranker, env, outcome, frame[c].rerank_candidates)
        /\ Len(frame[c].candidate_docs) > top_k
        /\ Len(frame[c].final_docs) = top_k

\* C4: a loaded reranker whose scoring call fails on every invocation:
\* rerank does not raise and returns the candidates it was given in their
\* original order (cut to top_k).
C4_FailingScoreKeepsOrder ==
    \A c \in Calls :
        (frame[c].rerank_calls > 0 /\ Available(reranker) /\ outcome = "raise")
        => /\ frame[c].branch = "RERANK"
           /\ frame[c].final_docs = Take(frame[c].rerank_candidates, top_k)

C4_Witness ==
    \E c \in Calls :
        /\ Done(c)
        /\ frame[c].rerank_calls = 1
        /\ Available(reranker) /\ outcome = "raise"
        /\ Len(frame[c].rerank_candidates) >= 2
        /\ Len(frame[c].final_docs) >= 2

\* C5: for every malformed LLM response (wrong number of indices, a
\* non-numeric token, an out-of-range index) LLMReranker.rerank returns
\* candidates[:top_k] unchanged.
Shown == Min2(Len(llm_documents), LLMWindow)

MalformedResponse ==
    \/ Len(llm_tokens) # Shown
    \/ \E j \in DOMAIN llm_tokens : ~IsInt(llm_tokens[j])
    \/ \E j \in DOMAIN llm_tokens :
        IsInt(llm_tokens[j]) /\ (IntOf(llm_tokens[j]) < 0 \/ IntOf(llm_tokens[j]) >= Shown)

C5_MalformedFallsBack ==
    (llm_done /\ llm = "answers" /\ llm_documents # <<>> /\ MalformedResponse)
    => llm_result = Take(llm_documents, llm_top_k)

\* C6: a reranker whose model failed to load at construction, obtained from
\* create_reranker or passed directly: search returns what it returns with
\* no reranker, the first top_k fused candidates in fusion order, for
\* every top_k and top_n_candidates.
C6_UnavailableSameAsNone ==
    \A c \in Calls :
        (Decided(c) /\ LoadModel(env).raised)
        => frame[c].final_docs = FusionOrderTopK(c)

\* C7: search calls reranker.rerank only if a reranker is configured, it
\* is available and there are more than top_k candidates; in every other
\* case it takes SKIP and returns candidates[:top_k] in fusion order.
C7_RerankOnlyIfAvailable ==
    \A c \in Calls :
        (/\ Decided(c)
         /\ ~(/\ reranker # NoReranker
              /\ Available(reranker)
              /\ Len(frame[c].candidate_docs) > top_k))
        => /\ frame[c].rerank_calls = 0
           /\ frame[c].branch = "SKIP"
           /\ frame[c].final_docs = FusionOrderTopK(c)

\* C8: fixed index, weights, top_k, top_n_candidates and a deterministic
\* reranker: two search calls with the same query return the same ordered
\* sequence of chunks.
C8_Deterministic ==
    (Decided(1) /\ Decided(2)) => frame[1].final_docs = frame[2].final_docs

C8_Witness ==
    /\ Done(1) /\ Done(2)
    /\ frame[1].branch = "RERANK" /\ frame[2].branch = "RERANK"
    /\ frame[1].final_docs # FusionOrderTopK(1)
    /\ frame[1].return_timing /\ frame[2].return_timing
    /\ frame[1].timing # frame[2].timing

\* C9: a chunk returned only by the vector search (its StableKey is not
\* among the lexical results) is in the fused list with fused score
\* exactly vector_norm * vector_weight.
C9_VectorOnlyScore ==
    \A c \in Calls :
        Fused(c) =>
            \A i \in DOMAIN frame[c].vector_results :
                LET vr == frame[c].vector_results
                    br == frame[c].bm25_results
                    key == GetStableDocKey(vr[i].doc)
                IN  key \notin Keys(DocsOf(br)) =>
                        \E j \in DOMAIN frame[c].sorted_candidates :
                            /\ frame[c].sorted_candidates[j].key = key
                            /\ frame[c].sorted_candidates[j].score
                                = VecNormNum(vr, vr[i].score) * vector_weight * LexDen(br)

\* C10: same recall results, same bm25_weight, vector_weight' >=
\* vector_weight: a chunk found only by the vector search that ranks at or
\* above a chunk found only by the lexical search still does so with
\* vector_weight'.
Position(sorted, key) == CHOOSE j \in DOMAIN sorted : sorted[j].key = key

VectorOnlyKeys(c) == Keys(DocsOf(frame[c].vector_results)) \ Keys(DocsOf(frame[c].bm25_results))

LexicalOnlyKeys(c) == Keys(DocsOf(frame[c].bm25_results)) \ Keys(DocsOf(frame[c].vector_results))

C10_WeightMonotone ==
    \A c \in Calls :
        Fused(c) =>
            \A vw2 \in Weights :
                vw2 >= vector_weight =>
                    LET first == frame[c].sorted_candidates
                        second == SortedCandidates(frame[c].vector_results,
                                                   frame[c].bm25_results, vw2, bm25_weight)
                    IN  \A kv \in VectorOnlyKeys(c), kl \in LexicalOnlyKeys(c) :
                            Position(first, kv) < Position(first, kl)
                                => Position(second, kv) < Position(second, kl)

C10_Witness ==
    \E c \in Calls :
        /\ Fused(c)
        /\ vector_weight = 35
        /\ \E kv \in VectorOnlyKeys(c), kl \in LexicalOnlyKeys(c) :
            LET first == frame[c].sorted_candidates
                second == SortedCandidates(frame[c].vector_results,
                                           frame[c].bm25_results, 65, bm25_weight)
            IN  /\ Position(first, kv) < Position(first, kl)
                /\ first[Position(first, kl)].score > 0
                /\ second[Position(second, kv)].score > first[Position(first, kv)].score

\* C11: lexical [(A, 5.0), (B, 1.0)], vector [(B, 0.1), (A, 0.9)], weights
\* 0.65 / 0.35: A's fused score is 0.35 and B's is 0.72, each up to the
\* epsilon term (every normalised score is off by at most one part in its
\* denominator), and search without a reranker returns [B, A].
ScoreOf(c, chunk) ==
    frame[c].sorted_candidates[Position(frame[c].sorted_candidates,
                                        GetStableDocKey(Document(chunk, "v")))].score

FusedDen(c) == VecDen(frame[c].vector_results) * LexDen(frame[c].bm25_results)

EpsTerm(c) == vector_weight * LexDen(frame[c].bm25_results)
                + bm25_weight * VecDen(frame[c].vector_results)

Near(x, y, tol) == x - y <= tol /\ y - x <= tol

C11_ScenarioScores ==
    \A c \in Calls :
        /\ Fused(c) =>
            /\ Len(frame[c].sorted_candidates) = 2
            /\ Near(ScoreOf(c, ChunkA), 35 * FusedDen(c), EpsTerm(c))
            /\ Near(ScoreOf(c, ChunkB), 72 * FusedDen(c), EpsTerm(c))
        /\ Decided(c) =>
            /\ frame[c].branch = "SKIP"
            /\ frame[c].final_docs = <<Document(ChunkB, "v"), Document(ChunkA, "v")>>

C11_Witness ==
    /\ Done(1)
    /\ frame[1].vector_results = <<[doc |-> Document(ChunkB, "v"), score |-> 1],
                                   [doc |-> Document(ChunkA, "v"), score |-> 9]>>
    /\ frame[1].bm25_results = <<[doc |-> Document(ChunkA, "l"), score |-> 5],
                                 [doc |-> Document(ChunkB, "l"), score |-> 1]>>
    /\ GetStableDocKey(frame[1].final_docs[1]) = "y.pdf:2:7be204d5"
    /\ GetStableDocKey(frame[1].final_docs[2]) = "x.pdf:0:0f3a9c11"

\* C12 (as stated): top_n_candidates = 2, a configured and available
\* reranker, fused order [B, A], reranker scores that reverse it: the final
\* result of search is [A, B].
RerankScores(c) ==
    Score(reranker, env, outcome, profile, Take(frame[c].candidate_docs, top_n_candidates))

Reverses(c) ==
    /\ top_n_candidates = 2
    /\ reranker # NoReranker /\ Available(reranker) /\ outcome = "ok"
    /\ Len(frame[c].candidate_docs) >= 2
    /\ RerankScores(c)[2] > RerankScores(c)[1]

C12_RerankReverses ==
    \A c \in Calls :
        (Decided(c) /\ Reverses(c) /\ Len(frame[c].candidate_docs) = 2)
        => frame[c].final_docs = <<frame[c].candidate_docs[2], frame[c].candidate_docs[1]>>

\* C12 (amended): with top_n_candidates = 2 and top_k = 2, a configured and
\* available reranker whose scores reverse the first two fused candidates
\* [B, A]: when the fused list has more than top_k entries the final result
\* is [A, B]; when it is exactly [B, A] search takes SKIP and returns [B, A].
C12_RerankReversesAboveTopK ==
    \A c \in Calls :
        (Decided(c) /\ Reverses(c) /\ top_k = 2)
        => IF Len(frame[c].candidate_docs) > top_k
           THEN /\ frame[c].branch = "RERANK"
                /\ frame[c].final_docs
                    = <<frame[c].candidate_docs[2], frame[c].candidate_docs[1]>>
           ELSE /\ frame[c].branch = "SKIP"
                /\ frame[c].final_docs = frame[c].candidate_docs

C12_Witness ==
    \E c \in Calls :
        /\ Done(c) /\ Reverses(c) /\ top_k = 2
        /\ Len(frame[c].candidate_docs) > top_k
        /\ GetStableDocKey(frame[c].candidate_docs[1]) = "y.pdf:2:7be204d5"
        /\ GetStableDocKey(frame[c].candidate_docs[2]) = "x.pdf:0:0f3a9c11"
        /\ GetStableDocKey(frame[c].final_docs[1]) = "x.pdf:0:0f3a9c11"
        /\ GetStableDocKey(frame[c].final_docs[2]) = "y.pdf:2:7be204d5"

\* C13: the vector normalisation never divides by zero: when the vector
\* search returns one candidate, or several at the same distance, each of
\* them gets the normalised score 1 (and, found by nothing else, the fused
\* score vector_weight).
SameDistance(vr) == vr # <<>> /\ \A i, j \in DOMAIN vr : vr[i].score = vr[j].score

OnlyHit(c, i) ==
    LET vr == frame[c].vector_results
        key == GetStableDocKey(vr[i].doc)
    IN  /\ \A j \in DOMAIN vr : j # i => GetStableDocKey(vr[j].doc) # key
        /\ key \notin Keys(DocsOf(frame[c].bm25_results))

C13_DegenerateNormIsOne ==
    \A c \in Calls :
        Fused(c) =>
            LET vr == frame[c].vector_results
            IN  /\ VecDen(vr) > 0
                /\ SameDistance(vr) =>
                    \A i \in DOMAIN vr :
                        /\ VecNormNum(vr, vr[i].score) = VecDen(vr)
                        /\ OnlyHit(c, i) =>
                            ScoreOf(c, vr[i].doc) = vector_weight * FusedDen(c)

C13_Witness ==
    \E c \in Calls :
        /\ Fused(c)
        /\ Len(frame[c].vector_results) = 2
        /\ SameDistance(frame[c].vector_results)
        /\ OnlyHit(c, 1) /\ ~OnlyHit(c, 2)
        /\ vector_weight = 65
        /\ frame[c].bm25_results # <<>>

\* C14: for an available CrossEncoderReranker, rerank(query, candidates,
\* top_k) returns exactly min(top_k, len(candidates)) chunks, the first
\* entries of the candidates sorted by reranker score descending with ties
\* in input order; every returned chunk is a candidate, none comes twice.
CandidateIndex(c, d) ==
    CHOOSE j \in DOMAIN frame[c].rerank_candidates : frame[c].rerank_candidates[j] = d

\* candidate i goes before candidate j in the reranked order
Before(c, i, j) ==
    \/ RerankScores(c)[i] > RerankScores(c)[j]
    \/ RerankScores(c)[i] = RerankScores(c)[j] /\ i < j

C14_RerankContract ==
    \A c \in Calls :
        (frame[c].branch = "RERANK" /\ Available(reranker)) =>
            LET cands == frame[c].rerank_candidates
                out == frame[c].final_docs
            IN  /\ Len(out) = Min2(top_k, Len(cands))
                /\ \A i \in DOMAIN out : \E j \in DOMAIN cands : cands[j] = out[i]
                /\ \A i, j \in DOMAIN out : i < j => out[i] # out[j]
                /\ \A i, j \in DOMAIN out :
                    i < j => Before(c, CandidateIndex(c, out[i]), CandidateIndex(c, out[j]))
                /\ \A j \in DOMAIN cands :
                    (\A i \in DOMAIN out : out[i] # cands[j])
                    => \A i \in DOMAIN out : Before(c, CandidateIndex(c, out[i]), j)

C14_Witness ==
    \E c \in Calls :
        /\ Done(c)
        /\ frame[c].branch = "RERANK" /\ Available(reranker) /\ outcome = "ok"
        /\ Len(frame[c].rerank_candidates) > top_k
        /\ Len(frame[c].final_docs) = 2
        /\ frame[c].final_docs # Take(frame[c].rerank_candidates, top_k)
        /\ \E i, j \in DOMAIN frame[c].rerank_candidates :
            i # j /\ RerankScores(c)[i] = RerankScores(c)[j]

\* C15: BM25Index.search(query, top_k) returns at most top_k (chunk, score)
\* pairs, sorted by score descending, pairs of equal score in corpus order,
\* and leaves out no corpus chunk that scores strictly higher than a
\* returned one.
CorpusIndex(doc) == CHOOSE j \in DOMAIN bm25_documents : bm25_documents[j] = doc

QueryScores == GetScores(bm25_documents, Tokenize(query), bm25_scores)

C15_LexicalSearchOrder ==
    lexical.pc = "done" =>
        LET out == lexical.results
        IN  /\ Len(out) <= lexical.top_k
            /\ \A i \in DOMAIN out :
                /\ \E j \in DOMAIN bm25_documents : bm25_documents[j] = out[i].doc
                /\ out[i].score = QueryScores[CorpusIndex(out[i].doc)]
            /\ \A i, j \in DOMAIN out :
                i < j => \/ out[i].score > out[j].score
                         \/ /\ out[i].score = out[j].score
                            /\ CorpusIndex(out[i].doc) < CorpusIndex(out[j].doc)
            /\ \A j \in DOMAIN bm25_documents :
                (\A i \in DOMAIN out : out[i].doc # bm25_documents[j])
                => \A i \in DOMAIN out : out[i].score >= QueryScores[j]

C15_Witness ==
    /\ lexical.pc = "done"
    /\ Len(bm25_documents) > lexical.top_k
    /\ Len(lexical.results) = lexical.top_k
    /\ lexical.top_k >= 1
    /\ CorpusIndex(lexical.results[1].doc) # 1

\* C16: on a non-empty corpus the lexical search returns an empty sequence,
\* and does not raise, when top_k = 0 and also when the query is empty
\* after tokenization.
C16_EmptyQueryOrZeroTopK ==
    (/\ lexical.pc = "done"
     /\ bm25_documents # <<>>
     /\ (lexical.top_k = 0 \/ Tokenize(query) = <<>>))
    => lexical.results = <<>>

C18_CallLocalState ==
    \A c \in Calls :
        (Done(c) /\ frame[c].return_timing) =>
            /\ \A i \in DOMAIN frame[c].final_docs :
                \E j \in DOMAIN frame[c].candidate_docs :
                    frame[c].candidate_docs[j] = frame[c].final_docs[i]
            /\ frame[c].timing.recall_time = frame[c].recall_time
            /\ frame[c].timing.rerank_time = frame[c].rerank_time
            /\ frame[c].timing.total_time = frame[c].recall_time + frame[c].rerank_time

\* the order of the statements of search: pc moves along these pairs only
PhaseOrder ==
    {<<"idle", "vector">>, <<"vector", "bm25">>, <<"bm25", "fuse">>, <<"fuse", "stage2">>,
     <<"stage2", "return">>, <<"return", "done">>}

PhaseStep ==
    \A c \in Calls :
        /\ frame'[c].pc # frame[c].pc => <<frame[c].pc, frame'[c].pc>> \in PhaseOrder
        /\ frame'[c].rerank_calls # frame[c].rerank_calls
            => frame[c].pc = "stage2" /\ frame'[c].rerank_calls = 1
        /\ frame'[c].branch # frame[c].branch => frame[c].pc = "stage2"

OneBranch ==
    \A c \in Calls :
        /\ Decided(c) =>
            \/ frame[c].branch = "SKIP" /\ frame[c].rerank_calls = 0
            \/ frame[c].branch \in {"RERANK", "RERANK_FAILED"} /\ frame[c].rerank_calls = 1
        /\ ~Decided(c) => frame[c].branch = "" /\ frame[c].rerank_calls = 0

\* C19: a search call whose two recall calls return goes through RECALL,
\* FUSE_DEDUP, exactly one of RERANK or SKIP, RESULT, in this order: fusion
\* never starts before both recall calls have returned, the reranker is
\* invoked at most once per call, and the call always reaches RESULT.
C19_PhaseOrder ==
    /\ [][PhaseStep]_vars
    /\ []OneBranch
    /\ \A c \in Calls : (frame[c].pc = "fuse") ~> Done(c)

C19_Witness ==
    \E c \in Calls :
        /\ Done(c)
        /\ frame[c].branch = "RERANK_FAILED"
        /\ frame[c].rerank_calls = 1
        /\ frame[c].vector_results # <<>> /\ frame[c].bm25_results # <<>>

\* the keys of the two recall lists of a call
RecalledKeys(c) ==
    {GetStableDocKey(frame[c].vector_results[i].doc) : i \in DOMAIN frame[c].vector_results}
    \cup {GetStableDocKey(frame[c].bm25_results[i].doc) : i \in DOMAIN frame[c].bm25_results}

\* C20 as stated: the candidate list FUSE_DEDUP produces, on which the
\* decision len(candidates) > top_k is taken, has at most top_n_candidates
\* entries, and the reranker never receives more than top_n_candidates.
C20_CandidatesBounded ==
    \A c \in Calls :
        /\ Fused(c) => Len(frame[c].candidate_docs) <= top_n_candidates
        /\ frame[c].rerank_calls > 0 => Len(frame[c].rerank_candidates) <= top_n_candidates

\* C20: the candidate list FUSE_DEDUP produces is not cut: it has one entry
\* per distinct key of the two recall lists, at most 2 * recall_k entries;
\* the reranker receives its first top_n_candidates entries and never more.
C20_RerankInputBounded ==
    \A c \in Calls :
        /\ Fused(c) =>
            /\ Len(frame[c].candidate_docs) = Cardinality(RecalledKeys(c))
            /\ Len(frame[c].candidate_docs) <= 2 * RecallK(top_n_candidates, top_k)
        /\ frame[c].rerank_calls > 0 =>
            /\ Len(frame[c].rerank_candidates) <= top_n_candidates
            /\ Len(frame[c].rerank_candidates)
                = Min2(top_n_candidates, Len(frame[c].candidate_docs))
            /\ \A i \in DOMAIN frame[c].rerank_candidates :
                frame[c].rerank_candidates[i] = frame[c].candidate_docs[i]

C20_Witness ==
    \E c \in Calls :
        /\ Done(c)
        /\ frame[c].rerank_calls = 1
        /\ Len(frame[c].candidate_docs) > top_n_candidates
        /\ Len(frame[c].rerank_candidates) = top_n_candidates
        /\ Len(frame[c].vector_results) < Len(frame[c].candidate_docs)

\* the keys of a call's recall results in the order fusion sees them: the
\* vector results, then the lexical results
SeenOrder(c) ==
    [i \in DOMAIN frame[c].vector_results |->
        GetStableDocKey(frame[c].vector_results[i].doc)]
    \o [i \in DOMAIN frame[c].bm25_results |->
        GetStableDocKey(frame[c].bm25_results[i].doc)]

FirstSeen(c, key) ==
    CHOOSE i \in DOMAIN SeenOrder(c) :
        /\ SeenOrder(c)[i] = key
        /\ \A j \in 1..(i - 1) : SeenOrder(c)[j] # key

\* C21: the fused candidates are in descending order of fused score, and
\* candidates of equal fused score are in first-seen order, the vector
\* results being seen before the lexical results: of two candidates of equal
\* score, one the vector search found precedes one only the lexical search found.
C21_StableDescending ==
    \A c \in Calls :
        Fused(c) =>
            LET sorted == frame[c].sorted_candidates
            IN  /\ \A i, j \in DOMAIN sorted :
                    i < j =>
                        \/ sorted[i].score > sorted[j].score
                        \/ /\ sorted[i].score = sorted[j].score
                           /\ FirstSeen(c, sorted[i].key) < FirstSeen(c, sorted[j].key)
                /\ \A i, j \in DOMAIN sorted :
                    /\ sorted[i].score = sorted[j].score
                    /\ sorted[i].key \in Keys(DocsOf(frame[c].vector_results))
                    /\ sorted[j].key \in LexicalOnlyKeys(c)
                    => i < j

C21_Witness ==
    \E c \in Calls :
        /\ Fused(c)
        /\ \E i, j \in DOMAIN frame[c].sorted_candidates :
            /\ i < j
            /\ frame[c].sorted_candidates[i].score = frame[c].sorted_candidates[j].score
            /\ frame[c].sorted_candidates[i].key \in Keys(DocsOf(frame[c].vector_results))
            /\ frame[c].sorted_candidates[j].key \in LexicalOnlyKeys(c)

\* what the two recall calls return, from the indexes and the configuration
VectorRecall == SimilaritySearchWithScore(vector_hits, RecallK(top_n_candidates, top_k))

LexicalRecall ==
    BM25Search(bm25_documents, GetScores(bm25_documents, Tokenize(query), bm25_scores),
               RecallK(top_n_candidates, top_k))

\* C22: the result of search does not depend on the order in which the
\* lexical and the vector recall calls run or complete: in either order each
\* call returns what the indexes and the configuration determine, neither
\* changes them, and the fused ranking and the returned list are the same.
C22_RecallOrderIrrelevant ==
    \A c \in Calls :
        /\ frame[c].pc \in {"bm25", "fuse"} \/ Fused(c) => frame[c].vector_results = VectorRecall
        /\ frame[c].pc \in {"vector_late", "fuse"} \/ Fused(c)
            => frame[c].bm25_results = LexicalRecall
        /\ Fused(c) =>
            frame[c].sorted_candidates
                = SortedCandidates(VectorRecall, LexicalRecall, vector_weight, bm25_weight)
        /\ Decided(c) =>
            frame[c].final_docs
                = Take(DocsOf(SortedCandidates(VectorRecall, LexicalRecall,
                                               vector_weight, bm25_weight)), top_k)

C22_Witness ==
    \E c \in Calls :
        /\ Done(c)
        /\ frame[c].recall_first = "bm25"
        /\ Len(frame[c].vector_results) >= 2
        /\ Len(frame[c].bm25_results) >= 2
        /\ Len(frame[c].candidate_docs) >= 2
        /\ VectorOnlyKeys(c) = {}
        /\ frame[c].final_docs # <<>>

\* what a call returns, from its fused candidates alone
DocsByBranch(c) ==
    IF frame[c].branch = "RERANK"
    THEN Rerank(reranker, env, outcome, profile,
                Take(frame[c].candidate_docs, top_n_candidates), top_k)
    ELSE Take(frame[c].candidate_docs, top_k)

\* C23: the rerank duration search reports is 0 whenever the rerank stage
\* is skipped or fails, total_time is recall_time + rerank_time, and the
\* timing values never influence which chunks are returned or their order.
C23_TimingObservational ==
    \A c \in Calls :
        /\ (Done(c) /\ frame[c].return_timing) =>
            /\ frame[c].branch \in {"SKIP", "RERANK_FAILED"} => frame[c].timing.rerank_time = 0
            /\ frame[c].timing.total_time
                = frame[c].timing.recall_time + frame[c].timing.rerank_time
        /\ Decided(c) => frame[c].final_docs = DocsByBranch(c)

\* C24: on the batched scoring path of CrossEncoderReranker.score, for every
\* batch_size >= 1 and every number n of candidates, the loop terminates,
\* each batch holds at least one and at most batch_size pairs, every
\* candidate is scored exactly once, and n scores are returned in candidate order.
C24_BatchLoop ==
    /\ [](\A b \in DOMAIN scoring.batches :
            scoring.batches[b] >= 1 /\ scoring.batches[b] <= scoring.batch_size)
    /\ [](scoring.pc = "done" =>
            /\ Len(scoring.scores) = Len(scoring.documents)
            /\ scoring.scored = [j \in DOMAIN scoring.documents |-> j]
            /\ \A j \in DOMAIN scoring.documents :
                scoring.scores[j] = Relevance(profile, scoring.documents[j])
            /\ scoring.scores = Score(reranker, env, outcome, profile, scoring.documents))
    /\ (scoring.pc = "loop") ~> (scoring.pc = "done")

C24_Witness ==
    /\ scoring.pc = "done"
    /\ scoring.batch_size = 3
    /\ scoring.batches = <<3, 1>>
    /\ scoring.scores[1] # scoring.scores[4]

\* the edges of the graph and of run: agent goes to tools exactly when the
\* last message is an AI message with tool calls and otherwise to END, tools
\* returns to agent, and a step that raises ends the run with the error string
AgentEdges ==
    agent'.pc # agent.pc =>
        \/ agent.pc = "idle" /\ agent'.pc = "agent"
        \/ /\ agent.pc = "agent" /\ agent'.pc = "tools"
           /\ agent'.messages[Len(agent'.messages)] = "ai_tools"
        \/ /\ agent.pc = "agent" /\ agent'.pc = "end"
           /\ agent'.messages[Len(agent'.messages)] = "ai"
        \/ agent.pc = "tools" /\ agent'.pc = "agent"
        \/ agent.pc = "end" /\ agent'.pc = "returned" /\ agent'.result = "content"
        \/ agent.pc \in {"agent", "tools"} /\ agent'.pc = "returned" /\ agent'.result = "error"

\* C25: ResearchAgent.run always terminates with a string and never raises:
\* the graph starts at agent, goes from agent to tools exactly when the last
\* message is an AI message with tool calls and otherwise to END, returns
\* from tools to agent, and a run that needs more than max_iterations steps
\* returns the "[ERROR] ..." string.
C25_RunTerminates ==
    /\ [][AgentEdges]_vars
    /\ [](agent.pc = "returned" => agent.result \in {"content", "fallback", "error"})
    /\ (agent.pc = "agent") ~> (agent.pc = "returned")
    /\ [](agent.steps > agent.max_iterations => agent.pc \notin {"tools", "agent", "end"})
    /\ [](agent.pc = "returned" /\ agent.steps > agent.max_iterations
            => agent.result = "error")

\* the same with the recursion limit the graph was invoked with
C25_RunTerminatesAtLimit ==
    /\ [][AgentEdges]_vars
    /\ [](agent.pc = "returned" => agent.result \in {"content", "fallback", "error"})
    /\ (agent.pc = "agent") ~> (agent.pc = "returned")
    /\ [](agent.steps <= agent.recursion_limit)
    /\ [](agent.pc \in {"agent", "tools"} /\ agent.steps = agent.recursion_limit
            => <>(agent.pc = "returned" /\ agent.result = "error"))

\* C26: search returns exactly min(top_k, number of distinct keys among the
\* vector and the lexical recall results) chunks, with or without reranker
\* and for every top_n_candidates, also when top_n_candidates < top_k.
C26_ExactCount ==
    \A c \in Calls :
        Decided(c) =>
            Len(frame[c].final_docs) = Min2(top_k, Cardinality(RecalledKeys(c)))

\* C27: for every LLM response, the list LLMReranker.rerank returns holds no
\* candidate twice, every chunk in it is one of the at most 10 candidates
\* shown to the LLM (or, on fallback, one of candidates[:top_k]), and its
\* length is min(top_k, len(candidates)).
C27_LLMRerankSafe ==
    llm_done =>
        /\ \A i, j \in DOMAIN llm_result : i # j => llm_result[i] # llm_result[j]
        /\ \/ llm_result = Take(llm_documents, llm_top_k)
           \/ \A i \in DOMAIN llm_result :
                \E j \in 1..Shown : llm_documents[j] = llm_result[i]
        /\ Len(llm_result) = Min2(llm_top_k, Len(llm_documents))

\* C28: create_reranker returns a reranker (not None) whenever reranking is
\* enabled and CrossEncoderReranker loaded a scoring backend, the
\* transformers backend included; it returns None only when reranking is
\* disabled or no backend could be loaded.
C28_CreateRerankerKeepsBackend ==
    /\ \A enabled \in BOOLEAN, e \in Envs, bs \in BatchSizes :
        CreateReranker(enabled, e, bs)
            = IF enabled /\ ~LoadModel(e).raised
              THEN CrossEncoderReranker(e, bs)
              ELSE NoReranker
    /\ (via = "create_reranker" /\ env.tf /\ env.loads) =>
        /\ reranker # NoReranker
        /\ reranker.use_transformers

\* C29: in fusion each key receives at most one contribution from the vector
\* source and at most one from the lexical source, so every fused score lies
\* in [0, vector_weight + bm25_weight], also when one source returns several
\* chunks with one key.
C29_ScoreRange ==
    \A c \in Calls :
        Fused(c) =>
            \A j \in DOMAIN frame[c].sorted_candidates :
                /\ frame[c].sorted_candidates[j].score >= 0
                /\ frame[c].sorted_candidates[j].score
                    <= (vector_weight + bm25_weight) * FusedDen(c)

\* the documents of a call's recall results in the order fusion sees them
SeenDocs(c) ==
    [i \in DOMAIN frame[c].vector_results |-> frame[c].vector_results[i].doc]
    \o [i \in DOMAIN frame[c].bm25_results |-> frame[c].bm25_results[i].doc]

\* C30: fusion drops and invents no chunk: the keys of the fused candidate
\* list are the keys of the vector results and of the lexical results, each
\* once, and the chunk kept for a key is the first instance encountered (the
\* vector search's copy when both sources return the key).
C30_FusionKeepsFirstInstance ==
    \A c \in Calls :
        Fused(c) =>
            LET sorted == frame[c].sorted_candidates
            IN  /\ {sorted[j].key : j \in DOMAIN sorted} = RecalledKeys(c)
                /\ Len(sorted) = Cardinality(RecalledKeys(c))
                /\ \A j \in DOMAIN sorted :
                    /\ sorted[j].doc = SeenDocs(c)[FirstSeen(c, sorted[j].key)]
                    /\ GetStableDocKey(sorted[j].doc) = sorted[j].key
                    /\ sorted[j].key \in Keys(DocsOf(frame[c].vector_results))
                        => sorted[j].doc.obj = "v"
                /\ frame[c].candidate_docs = DocsOf(sorted)

C30_Witness ==
    \E c \in Calls :
        /\ Fused(c)
        /\ \E j \in DOMAIN frame[c].sorted_candidates :
            /\ frame[c].sorted_candidates[j].key \in Keys(DocsOf(frame[c].vector_results))
            /\ frame[c].sorted_candidates[j].key \in Keys(DocsOf(frame[c].bm25_results))
            /\ frame[c].sorted_candidates[j].doc.obj = "v"
        /\ \E j \in DOMAIN frame[c].sorted_candidates :
            frame[c].sorted_candidates[j].doc.obj = "l"

====
